---- MODULE Spec2Model ----
(***************************************************************************)
(* proxybench: the periodic sampling scheduler (Start, bench, request,     *)
(* doRequest), the options defaulting and refresh (applyDefaults,          *)
(* fetchUpdate) and the one-shot local bridge (setupLocalProxy,            *)
(* doLocalProxy, dial) of src/proxybench.go.                               *)
(*                                                                         *)
(* Representation.                                                         *)
(*  - A Go string that the code parses (URL, address, duration string) is  *)
(*    a sequence of tokens; "" is <<>>.  Strings the code only copies      *)
(*    (provider, datacenter, protocol name) are TLA+ strings.              *)
(*  - A time.Duration is an integer number of nanoseconds.                 *)
(*  - A float64 sample rate is an integer number of hundredths; a draw of  *)
(*    rand.Float64() is k / RandSteps with k in 0 .. RandSteps-1.          *)
(***************************************************************************)
EXTENDS Integers, Sequences, FiniteSets, TLC

\* ------------------------------------------------------------------ bounds
RandSteps == 4      \* rand.Float64() draws are k/RandSteps, k in 0..RandSteps-1
MaxCycles == 2      \* iterations of the scheduler loop that are explored
MaxLingering == 1   \* bridges of earlier trials whose goroutines still run

\* --------------------------------------------------------------- constants
\* time.Hour.  TLC's integers are 32 bits wide, so the 3.6e12 ns of an hour
\* are scaled down; the model uses only that it is positive and a multiple
\* of 5 (so that 0.8 * Hour is a whole number of nanoseconds, as it is for
\* the real value).
Hour == 3600
\* float64 1, in hundredths
One == 100
\* float64 0.05, in hundredths
DefaultSampleRate == 5

DefaultUpdateURL == <<"https", "://", "s3.amazonaws.com", "/", "lantern/proxybench.json">>

DefaultURLs ==
    << <<"https", "://", "www.google.com", "/", "humans.txt">>,
       <<"https", "://", "www.facebook.com", "/", "humans.txt">>,
       <<"https", "://", "67.media.tumblr.com", "/", "avatar_4adfafc4c768_48.png">>,
       <<"http", "://", "s.ytimg.com", "/", "yts/cssbin/www-pageframe-webp-vfl37g48Z.css">>,
       <<"http", "://", "149.154.167.91", "/">> >>

TestingURL == <<"http", "://", "i.ytimg.com", "/", "vi/video_id/0.jpg">>

\* the package variable protocols as the source initialises it
DefaultProtocols == <<"https", "obfs4">>

\* ------------------------------------------------------------ pure helpers
\* Go map lookup: the zero value "" for a missing key
MapGet(m, k) == IF k \in DOMAIN m THEN m[k] ELSE <<>>

\* index of the last ":" token of s, 0 when there is none
LastColon(s) ==
    LET C == {i \in 1..Len(s) : s[i] = ":"}
    IN  IF C = {} THEN 0 ELSE CHOOSE i \in C : \A j \in C : j <= i

\* net.SplitHostPort: host and port around the last colon; on an error
\* (no colon: "missing port"; a colon left in the host: "too many colons")
\* both results are "" and the error is what the caller discards.
SplitHostPort(s) ==
    LET i == LastColon(s)
        h == SubSeq(s, 1, i - 1)
    IN  IF i = 0 \/ LastColon(h) # 0
        THEN [host |-> <<>>, port |-> <<>>, err |-> TRUE]
        ELSE [host |-> h, port |-> SubSeq(s, i + 1, Len(s)), err |-> FALSE]

\* url.Parse as http.NewRequest uses it.  A URL that starts with a colon
\* has no protocol scheme and is an error.  With "scheme://" the host is
\* what lies between "://" and the first "/"; without it the whole string
\* is a path and the host is "".
ParseURL(u) ==
    IF Len(u) >= 1 /\ u[1] \in {":", "://"}
    THEN [err |-> TRUE, Scheme |-> "", Host |-> <<>>]
    ELSE IF Len(u) >= 2 /\ u[2] = "://"
    THEN LET rest == SubSeq(u, 3, Len(u))
             S == {i \in 1..Len(rest) : rest[i] = "/"}
             e == IF S = {} THEN Len(rest)
                  ELSE (CHOOSE i \in S : \A j \in S : i <= j) - 1
         IN  [err |-> FALSE, Scheme |-> u[1], Host |-> SubSeq(rest, 1, e)]
    ELSE [err |-> FALSE, Scheme |-> "", Host |-> <<>>]

DigitVal == ("0" :> 0) @@ ("1" :> 1) @@ ("2" :> 2) @@ ("3" :> 3) @@ ("4" :> 4)
            @@ ("5" :> 5) @@ ("6" :> 6) @@ ("7" :> 7) @@ ("8" :> 8) @@ ("9" :> 9)

UnitVal == ("ns" :> 1) @@ ("us" :> 1000)

\* the unsigned part of a duration string: one or more <number, unit> pairs
RECURSIVE ParseSegments(_)
ParseSegments(s) ==
    IF Len(s) < 2 \/ s[1] \notin DOMAIN DigitVal \/ s[2] \notin DOMAIN UnitVal
    THEN [err |-> TRUE, d |-> 0]
    ELSE LET v == DigitVal[s[1]] * UnitVal[s[2]]
         IN  IF Len(s) = 2 THEN [err |-> FALSE, d |-> v]
             ELSE LET r == ParseSegments(SubSeq(s, 3, Len(s)))
                  IN  IF r.err THEN r ELSE [err |-> FALSE, d |-> v + r.d]

\* time.ParseDuration: [-+]?(number unit)+, or "0"; on an error the
\* duration returned is 0.
ParseDuration(s) ==
    LET neg == Len(s) >= 1 /\ s[1] = "-"
        body == IF Len(s) >= 1 /\ s[1] \in {"-", "+"} THEN Tail(s) ELSE s
        r == ParseSegments(body)
    IN  IF body = <<"0">> THEN [err |-> FALSE, d |-> 0]
        ELSE IF r.err THEN [err |-> TRUE, d |-> 0]
        ELSE [err |-> FALSE, d |-> IF neg THEN 0 - r.d ELSE r.d]

\* ------------------------------------------------------------------- state
VARIABLES
    testingProxy,   \* package variable testingProxy
    protocols,      \* package variable protocols
    opts,           \* the options the scheduler holds (Start's opts)
    pc,             \* where the caller / the scheduler goroutine is
    fetched,        \* fetchUpdate: how the GET and the decoding ended (kept
                    \* until the next statement of the loop)
    draw,           \* Start: the rand.Float64() of the sample gate (numerator)
    sleepPeriod,    \* Start: sleepPeriod, while the loop sleeps
    i, j,           \* bench: index of the origin and of the proxy
    origin,         \* request: the origin URL of the trial
    proxy,          \* request: the *proxy of the trial (withRandomProtocol)
    bridges,        \* setupLocalProxy: the listener and the goroutines of the
                    \* bridge of the trial in progress (index 0) and of the
                    \* bridges of earlier trials that have not ended yet
    buffersOut,     \* package variable buffers: buffers taken with Get and
                    \* not yet given back with Put
    inOpen,         \* connections returned by l.Accept() and not yet closed
    connected,      \* client.Do: the client has connected to the listener
    op,             \* doRequest: the ops context built so far
    resp,           \* doRequest: what client.Do returned
    reports,        \* number of calls of report since the last sample gate
    \* history, read by the properties only
    reported,       \* the contexts the current trial passed to report
    reportable,     \* fetches since the last sample gate that returned a
                    \* status other than 403 and 500
    gatePassed,     \* the sample gate of this cycle let the round run
    tried,          \* the <<i, j>> of the trials started in this cycle
    refreshes,      \* calls of fetchUpdate
    sleeps          \* calls of time.Sleep

vars == <<testingProxy, protocols, opts, pc, fetched, draw, sleepPeriod, i, j,
          origin, proxy, bridges, buffersOut, inOpen, connected, op, resp,
          reports, reported, reportable, gatePassed, tried, refreshes, sleeps>>

globals == <<testingProxy, protocols>>
pool == <<buffersOut, inOpen>>
loopVars == <<fetched, draw, sleepPeriod>>
trialVars == <<origin, proxy, bridges, connected, op, resp>>
reportVars == <<reports, reported, reportable>>
cycleVars == <<gatePassed, tried, refreshes, sleeps>>

\* ----------------------------------------------------------------- options
\* faulty variant of applyDefaults: in testing mode the testing proxy is appended to
\* the proxies instead of replacing them
applyDefaultsAppends(o) ==
    LET testingMode == testingProxy # <<>>
        o1 == IF o.PeriodString # <<>>
              THEN [o EXCEPT !.Period = ParseDuration(o.PeriodString).d]
              ELSE o
        o2 == IF o1.Period <= 0 THEN [o1 EXCEPT !.Period = Hour] ELSE o1
        o3 == IF o2.SampleRate <= 0
              THEN [o2 EXCEPT !.SampleRate = DefaultSampleRate] ELSE o2
        o4 == IF o3.UpdateURL = <<>> /\ ~testingMode
              THEN [o3 EXCEPT !.UpdateURL = DefaultUpdateURL] ELSE o3
        o5 == IF Len(o4.URLs) = 0 THEN [o4 EXCEPT !.URLs = DefaultURLs] ELSE o4
    IN  IF testingMode
        THEN [o5 EXCEPT !.SampleRate = One,
                        !.URLs = <<TestingURL>>,
                        !.Proxies = o5.Proxies \o
                                   << [Addrs |-> ("https" :> testingProxy),
                                        Provider |-> "testingProvider",
                                        DataCenter |-> "testingDC"] >>]
        ELSE o5

\* faulty variant of applyDefaults: the period string is parsed after the default
\* period is filled in
applyDefaultsParsesLast(o) ==
    LET testingMode == testingProxy # <<>>
        o1 == IF o.Period <= 0 THEN [o EXCEPT !.Period = Hour] ELSE o
        o2 == IF o1.PeriodString # <<>>
              THEN [o1 EXCEPT !.Period = ParseDuration(o1.PeriodString).d]
              ELSE o1
        o3 == IF o2.SampleRate <= 0
              THEN [o2 EXCEPT !.SampleRate = DefaultSampleRate] ELSE o2
        o4 == IF o3.UpdateURL = <<>> /\ ~testingMode
              THEN [o3 EXCEPT !.UpdateURL = DefaultUpdateURL] ELSE o3
        o5 == IF Len(o4.URLs) = 0 THEN [o4 EXCEPT !.URLs = DefaultURLs] ELSE o4
    IN  IF testingMode
        THEN [o5 EXCEPT !.SampleRate = One,
                        !.URLs = <<TestingURL>>,
                        !.Proxies = << [Addrs |-> ("https" :> testingProxy),
                                        Provider |-> "testingProvider",
                                        DataCenter |-> "testingDC"] >>]
        ELSE o5

\* Opts.applyDefaults (testingProxy is the package variable)
applyDefaults(o) ==
    LET testingMode == testingProxy # <<>>
        o1 == IF o.PeriodString # <<>>
              THEN [o EXCEPT !.Period = ParseDuration(o.PeriodString).d]
              ELSE o
        o2 == IF o1.Period <= 0 THEN [o1 EXCEPT !.Period = Hour] ELSE o1
        o3 == IF o2.SampleRate <= 0
              THEN [o2 EXCEPT !.SampleRate = DefaultSampleRate] ELSE o2
        o4 == IF o3.UpdateURL = <<>> /\ ~testingMode
              THEN [o3 EXCEPT !.UpdateURL = DefaultUpdateURL] ELSE o3
        o5 == IF Len(o4.URLs) = 0 THEN [o4 EXCEPT !.URLs = DefaultURLs] ELSE o4
    IN  IF testingMode
        THEN [o5 EXCEPT !.SampleRate = One,
                        !.URLs = <<TestingURL>>,
                        !.Proxies = << [Addrs |-> ("https" :> testingProxy),
                                        Provider |-> "testingProvider",
                                        DataCenter |-> "testingDC"] >>]
        ELSE o5

\* ------------------------------------------------------------------ inputs
TestAddr == <<"127.0.0.1", ":", "4443">>
CustomUpdateURL == <<"http", "://", "config.example", "/", "bench.json">>

ProxyA == [Addrs |-> ("https" :> <<"10.0.0.1", ":", "443">>)
                     @@ ("obfs4" :> <<"10.0.0.1", ":", "9443">>),
           Provider |-> "do", DataCenter |-> "sfo1"]
ProxyB == [Addrs |-> ("https" :> <<"10.0.0.2", ":", "443">>),
           Provider |-> "vultr", DataCenter |-> "ams1"]

UrlPort == <<"http", "://", "origin.example", ":", "8080", "/", "x">>
UrlNoScheme == <<"origin.example", "/", "x">>       \* NewRequest accepts it, Do does not
UrlBad == <<"://", "origin.example">>               \* NewRequest rejects it

ZeroOpts == [SampleRate |-> 0, Period |-> 0, PeriodString |-> <<>>,
         Proxies |-> <<>>, URLs |-> <<>>, UpdateURL |-> <<>>]

\* what a caller passes to Start
CallerOpts ==
    { ZeroOpts,
      [ZeroOpts EXCEPT !.SampleRate = One, !.Period = 3,
                   !.Proxies = <<ProxyA, ProxyB>>, !.URLs = <<UrlPort, UrlBad>>,
                   !.UpdateURL = CustomUpdateURL],
      [ZeroOpts EXCEPT !.SampleRate = 0 - 50, !.Period = 0 - 3,
                   !.PeriodString = <<"soon">>,
                   !.Proxies = <<ProxyB>>, !.URLs = <<UrlNoScheme>>],
      [ZeroOpts EXCEPT !.SampleRate = 150, !.Period = 10,
                   !.PeriodString = <<"-", "2", "ns">>,
                   !.Proxies = <<ProxyB>>, !.URLs = <<TestingURL>>] }

\* what the update source can send as a JSON body that decodes
RemoteOpts ==
    { ZeroOpts,
      [ZeroOpts EXCEPT !.SampleRate = 50, !.PeriodString = <<"7", "ns">>,
                   !.Proxies = <<ProxyA>>, !.URLs = <<TestingURL>>,
                   !.UpdateURL = CustomUpdateURL],
      [ZeroOpts EXCEPT !.SampleRate = 0 - 50, !.Period = 0 - 3,
                   !.PeriodString = <<"0">>,
                   !.Proxies = <<ProxyB>>, !.URLs = <<UrlPort>>] }

\* every combination of set and unset fields, for applyDefaults alone
AnyOpts ==
    [SampleRate : {0 - 50, 0, DefaultSampleRate, 50, One, 150},
     Period : {0 - 3, 0, 3, 10},
     PeriodString : {<<>>, <<"7", "ns">>, <<"-", "2", "ns">>, <<"soon">>, <<"0">>,
                     <<"1", "us", "5", "ns">>, <<"3">>},
     Proxies : {<<>>, <<ProxyB>>, <<ProxyA, ProxyB>>},
     URLs : {<<>>, <<TestingURL>>, <<UrlPort, UrlBad>>},
     UpdateURL : {<<>>, CustomUpdateURL}]

Statuses == {200, 403, 404, 500}

NoProxy == [Provider |-> "", DataCenter |-> "", protocol |-> "", addr |-> <<>>]
NoResp == [err |-> FALSE, status |-> 0]
NoOp == <<>>
NoFetch == [outcome |-> "none", body |-> ZeroOpts]
NoDraw == 0 - 1
FreeBridge ==
    [st |-> "free", lst |-> "closed", proxy |-> NoProxy, dialAddr |-> <<>>,
     out |-> "none", accepts |-> 0, dials |-> 0, second |-> FALSE]

InitWith(callers) ==
    /\ testingProxy \in {<<>>, TestAddr}
    /\ protocols \in {DefaultProtocols, <<"https">>}
    /\ opts \in callers
    /\ pc = "Start"
    /\ fetched = NoFetch
    /\ draw = NoDraw
    /\ sleepPeriod = 0
    /\ i = 1 /\ j = 1
    /\ origin = <<>>
    /\ proxy = NoProxy
    /\ bridges = [b \in 0..MaxLingering |-> FreeBridge]
    /\ buffersOut = 0
    /\ inOpen = 0
    /\ connected = FALSE
    /\ op = NoOp
    /\ resp = NoResp
    /\ reports = 0
    /\ reported = <<>>
    /\ reportable = 0
    /\ gatePassed = FALSE
    /\ tried = <<>>
    /\ refreshes = 0
    /\ sleeps = 0

Init == InitWith(CallerOpts)

\* --------------------------------------------------------------- scheduler
\* Start: applyDefaults, then ops.Go(loop); Start returns, the loop is at
\* its first statement.
Start ==
    /\ pc = "Start"
    /\ opts' = applyDefaults(opts)
    /\ pc' = "fetchUpdate"
    /\ UNCHANGED <<globals, pool, loopVars, i, j, trialVars, reportVars, cycleVars>>

\* Opts.fetchUpdate up to the decoding of the body: no request when there is
\* no update URL; else http.Get fails ("neterr"), answers another status
\* than 200 ("status"), sends a body that does not decode ("decode"), or
\* sends one that decodes to body ("ok")
FetchUpdateGet ==
    /\ pc = "fetchUpdate"
    /\ refreshes < MaxCycles
    /\ IF opts.UpdateURL = <<>>
       THEN fetched' = [outcome |-> "skip", body |-> ZeroOpts]
       ELSE \/ \E e \in {"neterr", "status", "decode"} :
                  fetched' = [outcome |-> e, body |-> ZeroOpts]
            \/ \E body \in RemoteOpts :
                  fetched' = [outcome |-> "ok", body |-> body]
    /\ refreshes' = refreshes + 1
    /\ pc' = "fetchReturn"
    /\ UNCHANGED <<globals, pool, opts, draw, sleepPeriod, i, j, trialVars, reportVars,
                   gatePassed, tried, sleeps>>

\* faulty variant of fetchUpdate: the options decoded so far are used although the
\* decoding failed
fetchUpdateIgnoresDecodeErr(o, f) ==
    IF f.outcome \in {"skip", "neterr", "status"} THEN o
    ELSE applyDefaults(f.body)

\* faulty variant of fetchUpdate: the update URL of the previous options is
\* kept when the decoded body has none
fetchUpdateMerges(o, f) ==
    IF f.outcome \in {"skip", "neterr", "status", "decode"} THEN o
    ELSE applyDefaults([f.body EXCEPT !.UpdateURL =
                            IF @ = <<>> THEN o.UpdateURL ELSE @])

\* Opts.fetchUpdate, the value returned: the receiver on every early return,
\* newOpts after newOpts.applyDefaults() otherwise
fetchUpdate(o, f) ==
    IF f.outcome \in {"skip", "neterr", "status", "decode"} THEN o
    ELSE applyDefaults(f.body)

\* opts = opts.fetchUpdate()
FetchUpdateReturn ==
    /\ pc = "fetchReturn"
    /\ opts' = fetchUpdate(opts, fetched)
    /\ pc' = "gate"
    /\ UNCHANGED <<globals, pool, loopVars, i, j, trialVars, reportVars, cycleVars>>

\* rand.Float64() is drawn for the sample gate
SampleDraw ==
    /\ pc = "gate"
    /\ \E k \in 0..(RandSteps - 1) : draw' = k
    /\ fetched' = NoFetch
    /\ pc' = "gated"
    /\ UNCHANGED <<globals, pool, opts, sleepPeriod, i, j, trialVars, reportVars, cycleVars>>

\* faulty variant of sampled: the comparison is <=
sampledInclusive(k, rate) == k * One <= rate * RandSteps

\* rand.Float64() < opts.SampleRate, for the draw k/RandSteps
sampled(k, rate) == k * One < rate * RandSteps

\* if rand.Float64() < opts.SampleRate { bench(opts, report) }
SampleGate ==
    /\ pc = "gated"
    /\ gatePassed' = sampled(draw, opts.SampleRate)
    /\ pc' = IF sampled(draw, opts.SampleRate) THEN "bench" ELSE "sleep"
    /\ draw' = NoDraw
    /\ i' = 1 /\ j' = 1
    /\ tried' = <<>>
    /\ reports' = 0 /\ reportable' = 0
    /\ UNCHANGED <<globals, pool, opts, fetched, sleepPeriod, trialVars, reported,
                   refreshes, sleeps>>

\* faulty variant of jitter: the draw is divided by 4, a quarter of the period
jitterQuarter(period, k) ==
    (period * (4 * RandSteps + (k - RandSteps))) \div (4 * RandSteps)

\* time.Duration(float64(period) * (1.0 + (rand.Float64()-1.0)/5)) for the
\* draw k/RandSteps: the factor is (5*RandSteps + (k - RandSteps)) /
\* (5*RandSteps), and the conversion to time.Duration truncates.
jitter(period, k) == (period * (5 * RandSteps + (k - RandSteps))) \div (5 * RandSteps)

\* sleepPeriod is computed and time.Sleep(sleepPeriod) is entered
Sleep ==
    /\ pc = "sleep"
    /\ \E k \in 0..(RandSteps - 1) : sleepPeriod' = jitter(opts.Period, k)
    /\ sleeps' = sleeps + 1
    /\ pc' = "sleeping"
    /\ UNCHANGED <<globals, pool, opts, fetched, draw, i, j, trialVars, reportVars,
                   gatePassed, tried, refreshes>>

\* time.Sleep returns and the loop starts over
Wake ==
    /\ pc = "sleeping"
    /\ sleepPeriod' = 0
    /\ pc' = "fetchUpdate"
    /\ UNCHANGED <<globals, pool, opts, fetched, draw, i, j, trialVars, reportVars,
                   cycleVars>>

\* ------------------------------------------------------------------- round
\* bench: the nested range loops have no pair left
BenchDone ==
    /\ pc = "bench"
    /\ (i > Len(opts.URLs) \/ Len(opts.Proxies) = 0)
    /\ pc' = "sleep"
    /\ UNCHANGED <<globals, pool, opts, loopVars, i, j, trialVars, reportVars, cycleVars>>

\* faulty variant of nextI: the outer loop moves on after every trial
nextIAlways == i + 1

\* the loop variables after the pair <<i, j>>
nextI == IF j < Len(opts.Proxies) THEN i ELSE i + 1
nextJ == IF j < Len(opts.Proxies) THEN j + 1 ELSE 1

\* Proxy.withRandomProtocol, for the draw rand.Intn(len(protocols)) = n - 1
withRandomProtocol(p, n) ==
    [Provider |-> p.Provider, DataCenter |-> p.DataCenter,
     protocol |-> protocols[n], addr |-> MapGet(p.Addrs, protocols[n])]

\* nothing is left of a bridge once its goroutines have ended and its
\* listener is closed; of one whose listener is closed, the proxy is read
\* by the dial alone (and by log messages), and a connection waiting in the
\* backlog of the listener is gone
Retire(r) ==
    IF r.lst = "open" THEN r
    ELSE IF r.st \in {"acceptErr", "ended"} THEN FreeBridge
    ELSE IF r.st = "dialing" THEN [r EXCEPT !.second = FALSE]
    ELSE [r EXCEPT !.proxy = NoProxy, !.dialAddr = <<>>, !.second = FALSE]

\* bench calls request(report, origin, proxy.withRandomProtocol()), and
\* request calls setupLocalProxy: net.Listen succeeds and the accept
\* goroutine is started, or net.Listen fails
Request ==
    /\ pc = "bench"
    /\ i <= Len(opts.URLs) /\ j <= Len(opts.Proxies)
    /\ origin' = opts.URLs[i]
    /\ \E n \in 1..Len(protocols) : proxy' = withRandomProtocol(opts.Proxies[j], n)
    /\ \/ /\ bridges' = [bridges EXCEPT ![0] =
                            [FreeBridge EXCEPT !.st = "accepting",
                                               !.lst = "open",
                                               !.proxy = proxy']]
          /\ pc' = "doRequest"
       \/ /\ UNCHANGED bridges
          /\ pc' = "bindErr"
    /\ tried' = Append(tried, <<i, j>>)
    /\ UNCHANGED <<globals, pool, opts, loopVars, i, j, connected, op, resp, reportVars,
                   gatePassed, refreshes, sleeps>>

\* faulty variant of RequestBindErr: the bind error ends the round
RequestBindErrAborts ==
    /\ pc = "bindErr"
    /\ origin' = <<>>
    /\ proxy' = NoProxy
    /\ pc' = "sleep"
    /\ UNCHANGED <<globals, pool, opts, loopVars, i, j, bridges, connected, op, resp,
                   reportVars, cycleVars>>

\* faulty variant of RequestBindErr: doRequest is called although the bind
\* failed
RequestBindErrFetches ==
    /\ pc = "bindErr"
    /\ pc' = "doRequest"
    /\ UNCHANGED <<globals, pool, opts, loopVars, i, j, origin, proxy, bridges,
                   connected, op, resp, reportVars, cycleVars>>

\* request, lines 121-124: the bind error is logged and request returns
RequestBindErr ==
    /\ pc = "bindErr"
    /\ origin' = <<>>
    /\ proxy' = NoProxy
    /\ i' = nextI /\ j' = nextJ
    /\ pc' = "bench"
    /\ UNCHANGED <<globals, pool, opts, loopVars, bridges, connected, op, resp,
                   reportVars, cycleVars>>

\* faulty variant of opBegin: proxy_protocol is always "https"
opBeginHttpsOnly(o, p) ==
    [url |-> o, proxy_type |-> "chained", proxy_protocol |-> "https",
     proxy_provider |-> p.Provider, proxy_datacenter |-> p.DataCenter,
     proxy_host |-> SplitHostPort(p.addr).host,
     proxy_port |-> SplitHostPort(p.addr).port]

\* doRequest, lines 130-138: the context before the request is built
opBegin(o, p) ==
    [url |-> o, proxy_type |-> "chained", proxy_protocol |-> p.protocol,
     proxy_provider |-> p.Provider, proxy_datacenter |-> p.DataCenter,
     proxy_host |-> SplitHostPort(p.addr).host,
     proxy_port |-> SplitHostPort(p.addr).port]

\* doRequest, line 159: origin and origin_host are req.URL.Host
opOrigin(o) == [origin |-> ParseURL(o).Host, origin_host |-> ParseURL(o).Host]

\* doRequest up to client.Do: http.NewRequest fails and doRequest returns, or
\* the request is ready
DoRequestBuild ==
    /\ pc = "doRequest"
    /\ IF ParseURL(origin).err
       THEN /\ op' = opBegin(origin, proxy)
            /\ pc' = "closeListener"
       ELSE /\ op' = opOrigin(origin) @@ opBegin(origin, proxy)
            /\ pc' = "clientDo"
    /\ UNCHANGED <<globals, pool, opts, loopVars, i, j, origin, proxy, bridges,
                   connected, resp, reportVars, cycleVars>>

\* client.Do: the transport connects to the local listener (the Proxy
\* function returns http://addr for every request)
ClientConnect ==
    /\ pc = "clientDo"
    /\ ~connected
    /\ ParseURL(origin).Scheme \in {"http", "https"}
    /\ connected' = TRUE
    /\ UNCHANGED <<globals, pool, opts, pc, loopVars, i, j, origin, proxy, bridges,
                   op, resp, reportVars, cycleVars>>

\* client.Do returns an error: unsupported scheme, connection closed by the
\* bridge, a failure further on, or the one minute timeout
ClientDoErr ==
    /\ pc = "clientDo"
    /\ resp' = [err |-> TRUE, status |-> 0]
    /\ pc' = "doRequestFinish"
    /\ UNCHANGED <<globals, pool, opts, loopVars, i, j, origin, proxy, bridges,
                   connected, op, reportVars, cycleVars>>

\* client.Do returns a response: it came through the relay of the bridge
ClientDoResp ==
    /\ pc = "clientDo"
    /\ connected
    /\ bridges[0].st = "relaying"
    /\ \E s \in Statuses :
          /\ resp' = [err |-> FALSE, status |-> s]
          /\ reportable' = IF s \in {403, 500} THEN reportable ELSE reportable + 1
    /\ pc' = "doRequestFinish"
    /\ UNCHANGED <<globals, pool, opts, loopVars, i, j, origin, proxy, bridges,
                   connected, op, reports, reported, cycleVars>>

\* faulty variant of dropStatus: status 500 is not dropped
dropStatusOnly403(s) == s = 403

\* doRequest, line 166: the statuses that are dropped
dropStatus(s) == s = 403 \/ s = 500

\* doRequest from the return of client.Do: drop the sample, or drain the
\* body, set proxybench_success and call report(delta, ops.AsMap(op, true))
DoRequestFinish ==
    /\ pc = "doRequestFinish"
    /\ IF resp.err \/ dropStatus(resp.status)
       THEN UNCHANGED <<op, reports, reported>>
       ELSE /\ op' = [proxybench_success |-> TRUE] @@ op
            /\ reports' = reports + 1
            /\ reported' = Append(reported, op')
    /\ pc' = "closeListener"
    /\ UNCHANGED <<globals, pool, opts, loopVars, i, j, origin, proxy, bridges,
                   connected, resp, reportable, cycleVars>>

\* request, line 126: l.Close(); request returns and the loops move on.
\* The goroutines of the bridge go on by themselves if they have not ended.
ListenerClose ==
    /\ pc = "closeListener"
    /\ LET r == Retire([bridges[0] EXCEPT !.lst = "closed"])
       IN  IF r = FreeBridge
           THEN bridges' = [bridges EXCEPT ![0] = FreeBridge]
           ELSE \E k \in 1..MaxLingering :
                   /\ bridges[k] = FreeBridge
                   /\ \A m \in 1..(k - 1) : bridges[m] # FreeBridge
                   /\ bridges' = [bridges EXCEPT ![0] = FreeBridge, ![k] = r]
    /\ origin' = <<>>
    /\ proxy' = NoProxy
    /\ connected' = FALSE
    /\ op' = NoOp
    /\ resp' = NoResp
    /\ reported' = <<>>
    /\ i' = nextI /\ j' = nextJ
    /\ pc' = "bench"
    /\ UNCHANGED <<globals, pool, opts, loopVars, reports, reportable, cycleVars>>

\* ------------------------------------------------------------------ bridge
bridgeFrame == <<globals, opts, pc, loopVars, i, j, origin, proxy, connected,
                 op, resp, reportVars, cycleVars>>

\* setupLocalProxy's goroutine: l.Accept() returns the one connection, and
\* doLocalProxy is started on it; the goroutine does not call Accept again
Accept(b) ==
    /\ bridges[b].st = "accepting"
    /\ bridges[b].lst = "open"
    /\ b = 0 /\ connected
    /\ bridges' = [bridges EXCEPT ![b].st = "dialing", ![b].accepts = @ + 1]
    /\ inOpen' = inOpen + 1
    /\ UNCHANGED <<bridgeFrame, buffersOut>>

\* l.Accept() fails because the listener was closed: logged, goroutine ends
AcceptFail(b) ==
    /\ bridges[b].st = "accepting"
    /\ bridges[b].lst = "closed"
    /\ bridges' = [bridges EXCEPT ![b] = Retire([@ EXCEPT !.st = "acceptErr"])]
    /\ UNCHANGED <<bridgeFrame, pool>>

\* another connection is made to the listener of the trial after Accept has
\* returned the first one (the port is open to every local process)
SecondConnect ==
    /\ bridges[0].lst = "open"
    /\ bridges[0].st \in {"dialing", "relaying", "ended"}
    /\ ~bridges[0].second
    /\ bridges' = [bridges EXCEPT ![0].second = TRUE]
    /\ UNCHANGED <<bridgeFrame, pool>>

\* proxy.dial can succeed: a known protocol and an address host:port
canDial(p) == p.protocol \in {"https", "obfs4"} /\ ~SplitHostPort(p.addr).err

\* faulty variant of closeIn: the accepted connection is left open
closeInNever(n) == n

\* defer in.Close(), line 195
closeIn(n) == n - 1

\* bufOut := buffers.Get(); bufIn := buffers.Get(), lines 201-202
getBuffers(n) == n + 2

\* faulty variant of putBuffers: bufOut is not put back
putBuffersOne(n) == n - 1

\* defer buffers.Put(bufOut); defer buffers.Put(bufIn), lines 203-204
putBuffers(n) == n - 2

\* doLocalProxy: proxy.dial() succeeds, two buffers are taken, BidiCopy runs
DialOk(b) ==
    /\ bridges[b].st = "dialing"
    /\ canDial(bridges[b].proxy)
    /\ bridges' = [bridges EXCEPT ![b] =
                      Retire([@ EXCEPT !.st = "relaying",
                                       !.dialAddr = bridges[b].proxy.addr,
                                       !.out = "open",
                                       !.dials = @ + 1])]
    /\ buffersOut' = getBuffers(buffersOut)
    /\ UNCHANGED <<bridgeFrame, inOpen>>

\* faulty variant of DialFail: the dial is tried again
DialFailRetries(b) ==
    /\ bridges[b].st = "dialing"
    /\ bridges' = [bridges EXCEPT ![b].dials = @ + 1,
                                  ![b].dialAddr = bridges[b].proxy.addr]
    /\ UNCHANGED <<bridgeFrame, pool>>

\* doLocalProxy: proxy.dial() fails (an unknown protocol included), the
\* function returns and the deferred in.Close() runs
DialFail(b) ==
    /\ bridges[b].st = "dialing"
    /\ bridges' = [bridges EXCEPT ![b] =
                      Retire([@ EXCEPT !.st = "ended",
                                       !.dialAddr = bridges[b].proxy.addr,
                                       !.dials = @ + 1])]
    /\ inOpen' = closeIn(inOpen)
    /\ UNCHANGED <<bridgeFrame, buffersOut>>

\* faulty variant of clientGone: the relay does not see the client leave
clientGoneNever(b) == FALSE

\* the http client has closed its connection to the listener of bridge b:
\* doRequest has returned (client.Do failed or timed out after one minute,
\* or the body was drained and closed; keep-alives are disabled)
clientGone(b) == b # 0 \/ pc = "closeListener"

\* doLocalProxy after BidiCopy has returned: the function returns and the
\* deferred calls run, buffers.Put twice and in.Close(); out is not closed
relayReturns(b) ==
    /\ bridges' = [bridges EXCEPT ![b] = Retire([@ EXCEPT !.st = "ended"])]
    /\ buffersOut' = putBuffers(buffersOut)
    /\ inOpen' = closeIn(inOpen)
    /\ UNCHANGED bridgeFrame

\* doLocalProxy: BidiCopy returns because the client side of the accepted
\* connection is closed
RelayEnd(b) ==
    /\ bridges[b].st = "relaying"
    /\ clientGone(b)
    /\ relayReturns(b)

\* doLocalProxy: BidiCopy returns while the client is still there: the proxy
\* closed the outbound connection, or a copy failed
RelayAbort(b) ==
    /\ bridges[b].st = "relaying"
    /\ ~clientGone(b)
    /\ relayReturns(b)

\* ----------------------------------------------------------- specification
Next ==
    \/ Start
    \/ FetchUpdateGet
    \/ FetchUpdateReturn
    \/ SampleDraw
    \/ SampleGate
    \/ BenchDone
    \/ Request
    \/ RequestBindErr
    \/ DoRequestBuild
    \/ ClientConnect
    \/ ClientDoErr
    \/ ClientDoResp
    \/ DoRequestFinish
    \/ ListenerClose
    \/ Sleep
    \/ Wake
    \/ \E b \in 0..MaxLingering : Accept(b)
    \/ \E b \in 0..MaxLingering : AcceptFail(b)
    \/ \E b \in 0..MaxLingering : DialOk(b)
    \/ \E b \in 0..MaxLingering : DialFail(b)
    \/ \E b \in 0..MaxLingering : RelayEnd(b)
    \/ \E b \in 0..MaxLingering : RelayAbort(b)
    \/ SecondConnect

Spec == Init /\ [][Next]_vars

\* The steps of the scheduler goroutine that the code bounds in time:
\* client.Do has a one minute timeout and time.Sleep returns.  http.Get of
\* fetchUpdate has no timeout and is left out.
schedulerStep ==
    \/ Start \/ FetchUpdateReturn \/ SampleDraw \/ SampleGate \/ BenchDone
    \/ Request \/ RequestBindErr \/ DoRequestBuild \/ ClientDoErr \/ ClientDoResp
    \/ DoRequestFinish \/ ListenerClose \/ Sleep \/ Wake

\* The steps of the goroutines of one bridge: Accept returns once a
\* connection came or the listener is closed, the dial returns, and BidiCopy
\* returns once the client side is closed.  That the proxy closes its side
\* earlier (RelayAbort) is not assumed.
bridgeStep(b) ==
    Accept(b) \/ AcceptFail(b) \/ DialOk(b) \/ DialFail(b) \/ RelayEnd(b)

\* Start(&Opts{...}) of one caller, with the package variables as the source
\* initialises them
FairInit ==
    /\ InitWith({[ZeroOpts EXCEPT !.SampleRate = One, !.Period = 3,
                                  !.Proxies = <<ProxyA, ProxyB>>,
                                  !.URLs = <<UrlBad, UrlPort>>]})
    /\ testingProxy = <<>>
    /\ protocols = DefaultProtocols

FairSpec ==
    /\ FairInit /\ [][Next]_vars
    /\ WF_vars(schedulerStep)
    /\ \A b \in 0..MaxLingering : WF_vars(bridgeStep(b))

\* Start(&Opts{...}) with the override endpoint set, as TestRoundTrip sets
\* it, and the protocol list as the source initialises it: every round is
\* one trial against the override endpoint
TrialInit ==
    /\ InitWith({[ZeroOpts EXCEPT !.UpdateURL = CustomUpdateURL]})
    /\ testingProxy = TestAddr
    /\ protocols = DefaultProtocols

TrialSpec ==
    /\ TrialInit /\ [][Next]_vars
    /\ WF_vars(schedulerStep)
    /\ \A b \in 0..MaxLingering : WF_vars(bridgeStep(b))

\* applyDefaults alone, applied by Start to every combination of fields
DefaultsInit == InitWith(AnyOpts)
DefaultsSpec == DefaultsInit /\ [][Start]_vars

\* ------------------------------------------------------------------ claims
\* the fetch of the current trial completed with a response whose status is
\* neither 403 nor 500
completed == ~resp.err /\ resp.status # 0 /\ resp.status \notin {403, 500}

\* C1: a trial calls report exactly once if its fetch completes with a
\* status other than 403 and 500, and never otherwise (bind failure,
\* request-construction failure, transport failure or timeout, 403, 500);
\* at every trial boundary the number of calls of report equals the number
\* of such completed fetches.
C1_ReportIffCompleted ==
    /\ pc \in {"closeListener", "bindErr"} =>
          Len(reported) = (IF completed THEN 1 ELSE 0)
    /\ pc \in {"bench", "sleep", "sleeping", "bindErr", "closeListener"} =>
          reports = reportable

C1_Witness ==
    /\ pc = "closeListener" /\ Len(reported) = 1
    /\ resp.status = 404 /\ reports = 2

\* the pairs of a round over o, in the order of the nested loops
AllPairs(o) ==
    LET P == Len(o.Proxies)
        n == Len(o.URLs) * P
    IN  IF n = 0 THEN <<>>
        ELSE [k \in 1..n |-> <<((k - 1) \div P) + 1, ((k - 1) % P) + 1>>]

\* C2: with sample rate 1 the gate lets every cycle through, and the round
\* starts exactly one trial for every (origin, proxy) pair of the options,
\* in order, none skipped and none repeated.
C2_FullRoundAtRateOne ==
    (pc = "sleep" /\ opts.SampleRate = One) =>
        /\ gatePassed
        /\ Len(tried) = Len(opts.URLs) * Len(opts.Proxies)
        /\ tried = AllPairs(opts)

C2_Witness ==
    /\ pc = "sleep" /\ opts.SampleRate = One
    /\ Len(opts.URLs) = 2 /\ Len(opts.Proxies) = 2 /\ Len(tried) = 4

\* C3: when the update fetch hits a network error, a status other than 200
\* or a body that does not decode, fetchUpdate returns the options it was
\* called with, unchanged, and the loop goes on to the sample gate.
C3_FailedRefreshKeepsOptions ==
    [][(pc = "fetchReturn" /\ fetched.outcome \in {"neterr", "status", "decode"})
          => (opts' = opts /\ pc' \in {"fetchReturn", "gate"})]_vars

C3_Witness ==
    /\ pc = "gate" /\ fetched.outcome = "decode"
    /\ opts.UpdateURL = CustomUpdateURL /\ opts.Period = 3

\* C4: applyDefaults is idempotent: on the result of applyDefaults, for
\* every combination of set and unset fields and with the override endpoint
\* empty or set, applyDefaults changes nothing.
C4_ApplyDefaultsIdempotent ==
    pc = "fetchUpdate" => applyDefaults(opts) = opts

C4_Witness ==
    /\ pc = "fetchUpdate" /\ testingProxy # <<>>
    /\ opts.PeriodString = <<"soon">> /\ opts.Period = Hour
    /\ opts.UpdateURL = <<>>

\* C5 as stated: after applyDefaults the period is strictly positive and the
\* sample rate is strictly positive and at most 1, for the options in use
\* at every sample gate and every sleep.
C5_Original ==
    pc # "Start" =>
        (opts.Period > 0 /\ opts.SampleRate > 0 /\ opts.SampleRate <= One)

\* C5 amended: after applyDefaults, for the options in use at every sample
\* gate and every sleep, the period and the sample rate are strictly
\* positive; the sample rate is at most 1 when the rate supplied (by the
\* caller or by the update source) was at most 1, and a supplied rate above
\* 1 is kept as it is.
C5_PositiveAfterDefaults ==
    /\ [](pc # "Start" => (opts.Period > 0 /\ opts.SampleRate > 0))
    /\ [][(pc = "Start" /\ pc' # pc) =>
             /\ opts.SampleRate <= One => opts'.SampleRate <= One
             /\ opts.SampleRate > One => opts'.SampleRate = opts.SampleRate
                                         \/ testingProxy # <<>>]_vars
    /\ [][(pc = "fetchReturn" /\ pc' # pc /\ fetched.outcome = "ok") =>
             /\ fetched.body.SampleRate <= One => opts'.SampleRate <= One
             /\ fetched.body.SampleRate > One =>
                   opts'.SampleRate = fetched.body.SampleRate
                   \/ testingProxy # <<>>]_vars

C5_Witness ==
    /\ pc = "gated" /\ opts.PeriodString = <<"soon">>
    /\ opts.Period = Hour /\ opts.SampleRate = DefaultSampleRate

phase ==
    CASE pc = "Start" -> "Start"
      [] pc \in {"fetchUpdate", "fetchReturn"} -> "RefreshConfig"
      [] pc \in {"gate", "gated"} -> "SampleGate"
      [] pc \in {"sleep", "sleeping"} -> "Sleep"
      [] OTHER -> "RunRound"

\* C7: Start applies the defaults and returns with the loop not yet run;
\* the loop goes RefreshConfig -> SampleGate -> RunRound -> Sleep ->
\* RefreshConfig, or from SampleGate directly to Sleep; there is exactly one
\* refresh per cycle and one sleep between two refreshes; the round is run
\* if and only if the draw is below the sample rate, and no trial is started
\* when it is not.
C7_SchedulerCycle ==
    /\ [][phase' # phase => <<phase, phase'>> \in
             { <<"Start", "RefreshConfig">>, <<"RefreshConfig", "SampleGate">>,
               <<"SampleGate", "RunRound">>, <<"SampleGate", "Sleep">>,
               <<"RunRound", "Sleep">>, <<"Sleep", "RefreshConfig">> }]_vars
    /\ [][(pc = "Start" /\ pc' # pc) =>
             /\ pc' = "fetchUpdate" /\ refreshes' = 0 /\ sleeps' = 0
             /\ tried' = <<>> /\ applyDefaults(opts') = opts']_vars
    /\ [](refreshes = IF pc \in {"Start", "fetchUpdate", "sleeping"}
                      THEN sleeps ELSE sleeps + 1)
    /\ [][(pc = "gated" /\ pc' # pc) =>
             /\ (pc' = "bench") <=> (draw * One < opts.SampleRate * RandSteps)
             /\ pc' # "bench" => (pc' = "sleep" /\ tried' = <<>>)]_vars
    /\ [](~gatePassed => tried = <<>>)

C7_Witness ==
    /\ pc = "sleep" /\ ~gatePassed /\ sleeps = 1
    /\ opts.SampleRate = 50

C10_Original ==
    (testingProxy # <<>> /\ pc # "Start") =>
        /\ opts.SampleRate = One
        /\ opts.URLs = <<TestingURL>>
        /\ Len(opts.Proxies) = 1
        /\ opts.Proxies[1].Addrs = ("https" :> testingProxy)
        /\ pc = "sleep" => tried = << <<1, 1>> >>
        /\ bridges[0].lst = "open" => bridges[0].proxy.addr = testingProxy

\* the current trial is over and was dropped
trialFailed == pc = "bindErr" \/ (pc = "closeListener" /\ Len(reported) = 0)

\* C8: no failure of a trial (bind failure, request-construction failure,
\* dial failure, fetch failure, 403/500) ends the round or the loop: the
\* loop moves on to the next pair, a round that was started has tried every
\* pair when the loop comes to Sleep, and after a dropped trial the loop
\* reaches Sleep, sleeps and comes back to the refresh of the next cycle.
C8_FailuresDoNotStopTheLoop ==
    /\ []((pc = "sleep" /\ gatePassed) => tried = AllPairs(opts))
    /\ [][(trialFailed /\ pc' # pc) =>
             (pc' = "bench" /\ opts' = opts /\ tried' = tried
              /\ <<i', j'>> = IF j < Len(opts.Proxies) THEN <<i, j + 1>>
                              ELSE <<i + 1, 1>>)]_vars
    /\ trialFailed ~> (pc = "sleep")
    /\ (pc = "sleep") ~> (pc = "fetchUpdate")

C8_Witness ==
    /\ pc = "sleep" /\ gatePassed /\ sleeps = 0
    /\ Len(tried) = 4 /\ reports = 0

\* the bridges whose doLocalProxy is running
handling == {b \in 0..MaxLingering : bridges[b].st \in {"dialing", "relaying"}}

\* the bridges whose BidiCopy is running
relaying == {b \in 0..MaxLingering : bridges[b].st = "relaying"}

\* C11: by the time the relay task of a bridge has ended, the outbound
\* connection that proxy.dial returned has been closed, as well as the
\* inbound connection.
C11_Original ==
    /\ \A b \in 0..MaxLingering :
          (bridges[b].st = "ended" /\ bridges[b].out # "none") =>
              bridges[b].out = "closed"
    /\ inOpen = Cardinality(handling)

\* C12: every connection a bridge accepted is closed when its doLocalProxy
\* ends, on a dial failure as on the end of the relay, and none stays open
\* afterwards: the accepted connections that are open are those of the
\* bridges whose doLocalProxy is running, and a bridge that has ended has
\* accepted one connection and holds none.
C12_InboundClosed ==
    /\ inOpen = Cardinality(handling)
    /\ \A b \in 0..MaxLingering :
          /\ bridges[b].st \in {"dialing", "relaying", "ended"} =>
                bridges[b].accepts = 1
          /\ bridges[b].st \in {"free", "accepting", "acceptErr"} =>
                bridges[b].accepts = 0
    /\ handling = {} => inOpen = 0

C12_Witness ==
    /\ bridges[0].st = "ended" /\ bridges[0].accepts = 1
    /\ bridges[0].out = "none" /\ bridges[0].dialAddr = <<>>
    /\ \E b \in 1..MaxLingering : bridges[b].st = "relaying"
    /\ inOpen = 1

\* C13: under every interleaving of bridges, the number of buffers taken
\* from the pool and not put back is twice the number of relays in
\* progress (zero when there is none): a bridge takes two buffers when its
\* dial has succeeded and puts two back when its relay ends, and a bridge
\* whose dial fails takes none.
C13_BuffersBalanced ==
    /\ [](buffersOut = 2 * Cardinality(relaying))
    /\ [][\A b \in 0..MaxLingering :
             /\ (bridges[b].st = "dialing" /\ bridges'[b].st = "relaying") =>
                   buffersOut' = buffersOut + 2
             /\ (bridges[b].st = "dialing"
                 /\ bridges'[b].st \notin {"dialing", "relaying"}) =>
                   buffersOut' = buffersOut
             /\ (bridges[b].st = "relaying" /\ bridges'[b].st # "relaying"
                 /\ pc' = pc) => buffersOut' = buffersOut - 2]_vars

C13_Witness ==
    /\ buffersOut = 4
    /\ bridges[0].st = "relaying"
    /\ \E b \in 1..MaxLingering : bridges[b].st = "relaying"

\* C14: in every trial the protocol chosen is one for which the proxy has
\* an address: a proxy that has only an "https" address is tried with
\* "https", the address of the trial is never empty, and the bridge never
\* dials an empty address.
C14_Original ==
    /\ proxy # NoProxy =>
          /\ proxy.protocol \in DOMAIN opts.Proxies[j].Addrs
          /\ DOMAIN opts.Proxies[j].Addrs = {"https"} => proxy.protocol = "https"
          /\ proxy.addr # <<>>
    /\ (bridges[0].lst = "open" /\ bridges[0].dials > 0) =>
          bridges[0].dialAddr # <<>>

\* C15: on a successful refresh fetchUpdate returns applyDefaults of the
\* decoded body, whatever the previous options were: an update URL, a URL
\* list or a proxy list that the body leaves out is the default or empty,
\* never the previous one; and the options change at no other step of the
\* loop, so never during a round.
C15_RefreshReplacesWholesale ==
    /\ [][(pc = "fetchReturn" /\ pc' # pc /\ fetched.outcome = "ok") =>
             /\ opts' = applyDefaults(fetched.body)
             /\ (fetched.body.UpdateURL = <<>> /\ testingProxy = <<>>) =>
                   opts'.UpdateURL = DefaultUpdateURL
             /\ (fetched.body.URLs = <<>> /\ testingProxy = <<>>) =>
                   opts'.URLs = DefaultURLs
             /\ (fetched.body.Proxies = <<>> /\ testingProxy = <<>>) =>
                   opts'.Proxies = <<>>]_vars
    /\ [][opts' # opts => (pc \in {"Start", "fetchReturn"} /\ pc' # pc)]_vars

C15_Witness ==
    /\ pc = "gate" /\ fetched.outcome = "ok" /\ fetched.body = ZeroOpts
    /\ testingProxy = <<>> /\ refreshes = 2
    /\ opts.UpdateURL = DefaultUpdateURL /\ opts.Proxies = <<>>
    /\ opts.URLs = DefaultURLs

\* C16: a bridge accepts at most one connection and calls proxy.dial at
\* most once: a second connection made to its listener stays unaccepted,
\* and after a failed accept or a failed dial the bridge neither accepts
\* nor dials again.
C16_OneAcceptOneDial ==
    /\ [](\A b \in 0..MaxLingering :
             /\ bridges[b].accepts <= 1
             /\ bridges[b].dials <= bridges[b].accepts
             /\ bridges[b].second => bridges[b].accepts = 1)
    /\ [][\A b \in 0..MaxLingering :
             /\ bridges[b].st \in {"dialing", "relaying", "ended", "acceptErr"} =>
                   bridges'[b].st # "accepting"
             /\ bridges[b].st \in {"relaying", "ended", "acceptErr"} =>
                   bridges'[b].st # "dialing"
             /\ bridges[b].st = "ended" => bridges'[b].st \in {"ended", "free"}
             /\ (bridges[b].second /\ bridges'[b].second) =>
                   bridges'[b].accepts = bridges[b].accepts]_vars

C16_Witness ==
    /\ pc = "closeListener" /\ bridges[0].st = "ended"
    /\ bridges[0].second /\ bridges[0].accepts = 1
    /\ bridges[0].dials = 1 /\ bridges[0].out = "none"

\* the scheduler is inside request, between a successful bind and l.Close()
inTrial == pc \in {"doRequest", "clientDo", "doRequestFinish", "closeListener"}

\* C17: trials are sequential and each has its own listener: only the
\* bridge of the trial in progress has an open listener, a fetch is under
\* way only inside that trial, the listener is closed when the trial ends,
\* whatever the fetch gave, before the next listener is bound, and after a
\* failed bind no fetch is made.
C17_TrialsSequential ==
    /\ [](/\ \A b \in 1..MaxLingering : bridges[b].lst = "closed"
          /\ inTrial <=> bridges[0].lst = "open"
          /\ ~inTrial => (bridges[0] = FreeBridge /\ ~connected /\ resp = NoResp)
          /\ Cardinality({b \in 0..MaxLingering : bridges[b].lst = "open"}) <= 1)
    /\ [][(bridges[0].lst = "closed" /\ bridges'[0].lst = "open") =>
             (pc = "bench" /\ pc' = "doRequest")]_vars
    /\ [][(pc = "closeListener" /\ pc' # pc) =>
             /\ pc' = "bench" /\ bridges'[0] = FreeBridge
             /\ \A b \in 1..MaxLingering : bridges'[b].lst = "closed"]_vars
    /\ [][(pc = "bindErr" /\ pc' # pc) =>
             (pc' = "bench" /\ bridges' = bridges /\ ~connected'
              /\ resp' = NoResp /\ reports' = reports)]_vars

C17_Witness ==
    /\ pc = "clientDo" /\ connected /\ Len(tried) = 2
    /\ bridges[0].lst = "open" /\ bridges[0].st = "relaying"
    /\ \E b \in 1..MaxLingering :
          bridges[b].st = "relaying" /\ bridges[b].lst = "closed"

sleepOutcomes == {jitter(opts.Period, k) : k \in 0..(RandSteps - 1)}

\* C19: the sleep is period * (1 + U) with U over (-0.2, 0.2): among the
\* outcomes of the Sleep step there are durations shorter than the period
\* and durations longer than the period.
C19_Original ==
    pc = "sleep" =>
        /\ \E d \in sleepOutcomes : d < opts.Period
        /\ \E d \in sleepOutcomes : d > opts.Period

====
